---- MODULE Spec2Model ----
(***************************************************************************)
(* Scheduling and execution pipeline of ChoyOperator.                      *)
(*                                                                         *)
(*   Spec       the pipeline: GUI commands (create / edit / delete / stop),*)
(*              the APScheduler thread, the worker pool, the clock and     *)
(*              process crash / restart.                                   *)
(*   SpecStore  the Post Store API of src/data/database.py called in any   *)
(*              order by any caller.                                       *)
(*   SpecTask   execute_scheduled_post as a function of its arguments and  *)
(*              of what its collaborators answer.                          *)
(*                                                                         *)
(* The clock counts units of five minutes (the misfire grace time), so a   *)
(* job is early (now < due), on time (now = due), late within the grace    *)
(* (now = due + 1) or missed (now > due + 1).                              *)
(* Job id "post_<n>" is <<"post_", n>>.                                    *)
(***************************************************************************)
EXTENDS Integers, Sequences, FiniteSets, TLC

\* ---------------------------------------------------------------- bounds
MaxPosts == 2
MaxAccounts == 2
MaxTime == 2
MaxDelay == 1

\* ------------------------------------------------------ program constants
\* "misfire_grace_time": 60 * 5 seconds = one unit of the clock
MisfireGraceTime == 1
\* ThreadPoolExecutor(max_workers=3)
max_workers == 3
\* "max_instances": 1
max_instances == 1

VARIABLES
    now,        \* wall clock (datetime.now()), in units of five minutes
    proc,       \* "up" | "stopping" | "down": the process and SchedulerManager._started
    accounts,   \* table accounts: sequence of rows, row id = index
    posts,      \* table scheduled_posts: post id -> row or NoRow
    lastrowid,  \* AUTOINCREMENT counter of scheduled_posts
    jobstore,   \* APScheduler job store (scheduler.db): job id -> job or NoJob
    execs,      \* executor: job id -> sequence of submitted instances
    gui,        \* position of the GUI thread inside a command
    last,       \* what the step just taken returned or reported, if anything
    cancelled,  \* job ids whose timer was cancelled before its due time
    task        \* SpecTask: one call of execute_scheduled_post

vars == <<now, proc, accounts, posts, lastrowid, jobstore, execs, gui,
          last, cancelled, task>>

Null == "None"
NoTime == -1

PostIds == 1..MaxPosts
JobId(post_id) == <<"post_", post_id>>
JobIds == {JobId(p) : p \in PostIds}
PostOf(job_id) == job_id[2]

\* class SocialPlatform
SocialPlatform == {"facebook", "twitter", "linkedin", "youtube"}

\* class PostStatusEnum
PostStatusEnum == {"pending", "running", "success", "failed", "cancelled"}
Terminal == {"success", "failed", "cancelled"}

\* class PostStatus (publisher result)
PostStatus == {"success", "failed", "pending", "captcha_required", "auth_required"}

NoRow == [id |-> 0]
NoJob == [id |-> Null]
NoAccount == [id |-> 0]
IdleGui == [op |-> "idle"]
NoTask == [pc |-> "unused"]
NoOutcome == [kind |-> "none", job |-> Null, code |-> Null, ok |-> FALSE,
              early |-> FALSE, begun |-> FALSE,
              listener |-> FALSE, status |-> Null, post_url |-> Null]


\* ------------------------------------------------------------- messages
\* A message is the sequence of its words, lower-cased; Contains is
\* str.__contains__ on whole words.
MsgNoCredentials ==
    <<"account", "has", "no", "stored", "credentials.", "please", "reconnect",
      "and", "save", "login", "info.">>
MsgLoginFailed == <<"failed", "to", "login", "to", "platform">>
MsgUnknownPlatform(platform) == <<"unknown", "platform:", platform>>
MsgAccountNotFound(account_id) == <<"account", ToString(account_id), "not", "found">>
Contains(message, word) == \E i \in 1..Len(message) : message[i] = word

\* --------------------------------------------------- execute_scheduled_post
\* PLATFORM_CLASSES
PLATFORM_CLASSES == {"facebook", "x", "linkedin", "youtube"}

\* str.lower() on the platform tags that occur
PlatformTags == SocialPlatform \cup {"x", "Facebook", "LinkedIn", "demo", ""}
Lower(tag) ==
    CASE tag = "Facebook" -> "facebook"
      [] tag = "LinkedIn" -> "linkedin"
      [] OTHER -> tag

\* Database.get_account: SELECT * FROM accounts WHERE id = ?
get_account(table, account_id) ==
    IF account_id \in 1..Len(table) THEN table[account_id] ELSE NoAccount

\* What the collaborators answer during one execution.
\*   fb       poster.post_to_facebook: "success" | "failed" | "raise"
\*   restore  driver.try_restore_session: "true" | "false" | "raise"
\*   decrypt  account.get_decrypted_password: "ok" | "raise"
\*   login    driver.login: "true" | "false" | "raise"
\*   publish  driver.create_post: a PostStatus value or "raise"
\*   url      the post_url of the PostResult
\*   message  the message of the publisher or of the exception
FbOutcomes == {"success", "failed", "raise"}
RestoreOutcomes == {"true", "false", "raise"}
DecryptOutcomes == {"ok", "raise"}
LoginOutcomes == {"true", "false", "raise"}
PublishOutcomes == PostStatus \cup {"raise"}
Urls == {Null, "https://demo/post/42"}
EnvMessages == {<<"publisher", "message">>, <<>>}
Envs ==
    [fb : FbOutcomes, restore : RestoreOutcomes, decrypt : DecryptOutcomes,
     login : LoginOutcomes, publish : PublishOutcomes, url : Urls,
     message : EnvMessages]

TaskResult(status, message, post_url, calls, closed) ==
    [status |-> status, message |-> message, post_url |-> post_url,
     calls |-> calls, closed |-> closed]

\* the part of execute_scheduled_post after the session is established:
\* create_post, driver.browser.close(), the returned dict
PublishStep(env, calls) ==
    IF env.publish = "raise"
    THEN TaskResult("failed", env.message, Null, calls \o <<"create_post">>, FALSE)
    ELSE TaskResult(env.publish, env.message, env.url,
                    calls \o <<"create_post", "close">>, TRUE)

\* mutant: the check for a stored credential is missing
LoginStepNoCredentialCheck(account, env, calls) ==
    IF env.decrypt = "raise"
    THEN TaskResult("failed", env.message, Null, calls \o <<"decrypt">>, FALSE)
    ELSE IF env.login # "true"
    THEN TaskResult("failed", MsgLoginFailed, Null,
                    calls \o <<"decrypt", "login">>, FALSE)
    ELSE PublishStep(env, calls \o <<"decrypt", "login">>)

\* the "if not session_restored:" block
LoginStep(account, env, calls) ==
    IF account.encrypted_password = Null
    THEN TaskResult("failed", MsgNoCredentials, Null, calls, FALSE)
    ELSE IF env.decrypt = "raise"
    THEN TaskResult("failed", env.message, Null, calls \o <<"decrypt">>, FALSE)
    ELSE IF env.login = "raise"
    THEN TaskResult("failed", env.message, Null,
                    calls \o <<"decrypt", "login">>, FALSE)
    ELSE IF env.login = "false"
    THEN TaskResult("failed", MsgLoginFailed, Null,
                    calls \o <<"decrypt", "login">>, FALSE)
    ELSE PublishStep(env, calls \o <<"decrypt", "login">>)

execute_scheduled_post(platform, account_id, table, env) ==
    LET platform_key == Lower(platform)
        account == get_account(table, account_id)
    IN  IF platform_key = "facebook"
        THEN IF env.fb = "raise"
             THEN TaskResult("failed", env.message, Null, <<"post_to_facebook">>, FALSE)
             ELSE TaskResult(env.fb, env.message, Null, <<"post_to_facebook">>, FALSE)
        ELSE IF platform_key \notin PLATFORM_CLASSES
        THEN TaskResult("failed", MsgUnknownPlatform(platform), Null, <<>>, FALSE)
        ELSE IF account = NoAccount
        THEN TaskResult("failed", MsgAccountNotFound(account_id), Null,
                        <<"get_account">>, FALSE)
        ELSE IF env.restore = "true"
        THEN PublishStep(env, <<"get_account", "try_restore_session">>)
        ELSE LoginStep(account, env, <<"get_account", "try_restore_session">>)

\* ------------------------------------------------------------ Post Store
PostRow(id, account_id, scheduled_time) ==
    [id |-> id, account_id |-> account_id, scheduled_time |-> scheduled_time,
     status |-> "pending", result_message |-> Null, post_url |-> Null,
     executed_at |-> NoTime]

\* Database.add_scheduled_post: INSERT, returns cursor.lastrowid
add_scheduled_post(table, id, account_id, scheduled_time) ==
    [table EXCEPT ![id] = PostRow(id, account_id, scheduled_time)]

\* Database.get_scheduled_post
get_scheduled_post(table, post_id) ==
    IF post_id \in DOMAIN table THEN table[post_id] ELSE NoRow

\* Database.get_pending_posts (the rows, without the ORDER BY)
get_pending_posts(table) ==
    {table[p] : p \in {q \in DOMAIN table : table[q] # NoRow /\ table[q].status = "pending"}}

\* mutant: the due time is written without zero padding ("0:5", "0:10")
isoformat_unpadded(t) ==
    IF 5 * t < 10 THEN <<0, 10, 5 * t>> ELSE <<0, 10, (5 * t) \div 10, (5 * t) % 10>>

\* post.scheduled_time.isoformat(): the text stored in column scheduled_time.
\* Of "YYYY-MM-DDTHH:MM:SS" the model keeps "HH:MM" as a sequence of
\* characters (the digits, 10 for ":"); clock value t is 5 * t minutes.
isoformat(t) ==
    LET minutes == 5 * t
    IN  <<(minutes \div 60) \div 10, (minutes \div 60) % 10, 10,
          (minutes % 60) \div 10, (minutes % 60) % 10>>

\* comparison of two TEXT values in SQLite (BINARY collation): a <= b
TextLeq(a, b) ==
    \/ \E k \in 1..Len(a) :
          /\ k <= Len(b)
          /\ \A i \in 1..(k - 1) : a[i] = b[i]
          /\ a[k] < b[k]
    \/ /\ Len(a) <= Len(b)
       /\ \A i \in 1..Len(a) : a[i] = b[i]

\* Database.get_pending_posts: SELECT * FROM scheduled_posts WHERE status =
\* 'pending' ORDER BY scheduled_time. The result lists the selected rows in
\* ascending order of the stored text; SQLite leaves the order of rows with
\* equal keys open, so every list it may return is in the set.
get_pending_posts_ordered(table) ==
    LET rows == get_pending_posts(table)
        n == Cardinality(rows)
    IN  {s \in [1..n -> rows] :
            /\ \A i, k \in 1..n : i # k => s[i] # s[k]
            /\ \A i, k \in 1..n :
                  i < k => TextLeq(isoformat(s[i].scheduled_time),
                                    isoformat(s[k].scheduled_time))}

\* Database.update_post_status: UPDATE ... WHERE id = ?, no check of the old status
update_post_status(table, post_id, status, result_message, post_url, at) ==
    IF post_id \in DOMAIN table /\ table[post_id] # NoRow
    THEN [table EXCEPT ![post_id] =
            [@ EXCEPT !.status = status, !.result_message = result_message,
                      !.post_url = post_url, !.executed_at = at]]
    ELSE table

\* Database.update_scheduled_post: UPDATE content, scheduled_time, media_paths
update_scheduled_post(table, post_id, scheduled_time) ==
    IF post_id \in DOMAIN table /\ table[post_id] # NoRow
    THEN [table EXCEPT ![post_id] = [@ EXCEPT !.scheduled_time = scheduled_time]]
    ELSE table

\* Database.delete_scheduled_post: DELETE FROM scheduled_posts WHERE id = ?
delete_scheduled_post(table, post_id) ==
    IF post_id \in DOMAIN table THEN [table EXCEPT ![post_id] = NoRow] ELSE table

\* cursor.rowcount > 0 of an UPDATE / DELETE ... WHERE id = ? on scheduled_posts
PostRowcount(table, post_id) ==
    IF post_id \in DOMAIN table /\ table[post_id] # NoRow THEN "True" ELSE "False"

\* what the store's write operations return
\* Database.update_post_status has no return statement
update_post_status_returns(table, post_id) == Null
\* Database.update_scheduled_post: return cursor.rowcount > 0
update_scheduled_post_returns(table, post_id) == PostRowcount(table, post_id)
\* Database.delete_scheduled_post: return cursor.rowcount > 0
delete_scheduled_post_returns(table, post_id) == PostRowcount(table, post_id)

\* --------------------------------------------------------- Account Store
AccountRow(id, platform, username, encrypted_password, is_active) ==
    [id |-> id, platform |-> platform, username |-> username,
     encrypted_password |-> encrypted_password, is_active |-> is_active]

\* Database.get_all_accounts(active_only=True), in row order
get_all_accounts(table) ==
    SelectSeq(table, LAMBDA a : a.is_active)

\* --------------------------------------------------------- SchedulerManager
Job(run_at, platform, account_id) ==
    [id |-> "job", run_at |-> run_at, platform |-> platform, account_id |-> account_id]

\* mutant: add_job without replace_existing, an existing id keeps its old job
schedule_post_keep_existing(store, job_id, run_at, platform, account_id) ==
    IF store[job_id] # NoJob THEN store
    ELSE [store EXCEPT ![job_id] = Job(run_at, platform, account_id)]

\* SchedulerManager.schedule_post: add_job(..., id=job_id, replace_existing=True)
schedule_post(store, job_id, run_at, platform, account_id) ==
    [store EXCEPT ![job_id] = Job(run_at, platform, account_id)]

\* SchedulerManager.cancel_job: remove_job raises JobLookupError for an unknown id
cancel_job_ok(store, job_id) == store[job_id] # NoJob
cancel_job(store, job_id) ==
    IF store[job_id] # NoJob THEN [store EXCEPT ![job_id] = NoJob] ELSE store

\* SchedulerManager.reschedule_job: scheduler.reschedule_job(job_id,
\* trigger=DateTrigger(run_date=new_time)) replaces the trigger of the job and
\* keeps its kwargs; JobLookupError for an unknown id is caught, returns False
reschedule_job_ok(store, job_id) == store[job_id] # NoJob
reschedule_job(store, job_id, new_time) ==
    IF store[job_id] # NoJob THEN [store EXCEPT ![job_id].run_at = new_time] ELSE store

\* mutant: the executor never refuses an instance (no max_instances limit)
InstancesReachedOff(instances) == FALSE

\* BaseExecutor.submit_job: MaxInstancesReachedError when the job id already
\* has max_instances instances submitted or running
InstancesReached(instances) == Len(instances) >= max_instances

\* mutant: no misfire grace time is configured, a late job always runs
MissedNoGrace(run_time, t) == FALSE

\* BaseExecutor run_job: the run time is more than misfire_grace_time ago
Missed(run_time, t) == t - run_time > MisfireGraceTime

Instance(job, run_time) ==
    [run_time |-> run_time, st |-> "queued", platform |-> job.platform,
     account_id |-> job.account_id]

RunningOf(j) == {i \in 1..Len(execs[j]) : execs[j][i].st = "running"}
QueuedOf(j) == {i \in 1..Len(execs[j]) : execs[j][i].st = "queued"}
RunningCount == Cardinality({<<j, i>> \in JobIds \X (1..(max_instances + 1)) :
                               i \in RunningOf(j)})
RemoveAt(seq, i) == SubSeq(seq, 1, i - 1) \o SubSeq(seq, i + 1, Len(seq))

\* SchedulerManager._on_job_event is registered for EXECUTED | ERROR | MISSED;
\* on_job_executed and on_job_error are None (get_scheduler passes none), so
\* the listener only logs the event.
ListenerMask == {"executed", "error", "missed"}
_on_job_event(code, job_id, retval) ==
    [kind |-> "event", job |-> job_id, code |-> code, ok |-> FALSE,
     early |-> FALSE, begun |-> FALSE,
     listener |-> code \in ListenerMask,
     status |-> retval.status, post_url |-> retval.post_url]
NoRetval == [status |-> Null, post_url |-> Null]

\* get_scheduler builds SchedulerManager() with no arguments: both callbacks
\* keep their default None
on_job_executed == Null
on_job_error == Null

\* SchedulerManager._on_job_event: the callbacks it calls for an event code.
\* EVENT_JOB_EXECUTED calls on_job_executed whatever the returned dict says,
\* EVENT_JOB_ERROR calls on_job_error, EVENT_JOB_MISSED only logs.
CallbacksCalled(code) ==
    CASE code = "executed" ->
            IF on_job_executed # Null THEN {"on_job_executed"} ELSE {}
      [] code = "error" ->
            IF on_job_error # Null THEN {"on_job_error"} ELSE {}
      [] OTHER -> {}

\* what a cancel_job call returned, whether it came before the due time of a
\* registered timer, and whether an execution of the job was in progress when
\* the command that makes the call was issued
CancelOutcome(job_id, ok, early, begun) ==
    [kind |-> "cancel", job |-> job_id, code |-> Null, ok |-> ok,
     early |-> early, begun |-> begun,
     listener |-> FALSE, status |-> Null, post_url |-> Null]

\* ================================================================== Spec
Init ==
    /\ now = 0
    /\ proc = "up"
    /\ accounts = <<>>
    /\ posts = [p \in PostIds |-> NoRow]
    /\ lastrowid = 0
    /\ jobstore = [j \in JobIds |-> NoJob]
    /\ execs = [j \in JobIds |-> <<>>]
    /\ gui = IdleGui
    /\ last = NoOutcome
    /\ cancelled = {}
    /\ task = NoTask

\* datetime.now() advances
Tick(d) ==
    /\ now + d <= MaxTime
    /\ now' = now + d
    /\ last' = NoOutcome
    /\ UNCHANGED <<proc, accounts, posts, lastrowid, jobstore, execs, gui,
                   cancelled, task>>

\* ------------------------------------------------------------ GUI thread
\* MainWindow._handle_schedule up to and including db.add_scheduled_post
HandleScheduleStore(platform_name, display_name, scheduled_time) ==
    LET db_accounts == get_all_accounts(accounts)
        matching == {i \in 1..Len(db_accounts) :
                        Lower(db_accounts[i].platform) = platform_name}
        found == matching # {}
        first == CHOOSE i \in matching : \A k \in matching : i <= k
        new_account == AccountRow(Len(accounts) + 1, platform_name, display_name,
                                  Null, TRUE)
        db_account == IF found THEN db_accounts[first] ELSE new_account
        post_id == lastrowid + 1
    IN  /\ proc = "up"
        /\ gui = IdleGui
        /\ lastrowid < MaxPosts
        /\ found \/ Len(accounts) < MaxAccounts
        /\ accounts' = IF found THEN accounts ELSE Append(accounts, new_account)
        /\ posts' = add_scheduled_post(posts, post_id, db_account.id, scheduled_time)
        /\ lastrowid' = post_id
        /\ gui' = [op |-> "schedule", post |-> post_id, run_at |-> scheduled_time,
                   platform |-> platform_name, account_id |-> db_account.id]
        /\ last' = NoOutcome
        /\ UNCHANGED <<now, proc, jobstore, execs, cancelled, task>>

\* MainWindow._handle_schedule: scheduler.schedule_post(job_id=f"post_{post_id}", ...)
HandleScheduleRegister ==
    /\ proc = "up"
    /\ gui.op = "schedule"
    /\ jobstore' = schedule_post(jobstore, JobId(gui.post), gui.run_at,
                                 gui.platform, gui.account_id)
    /\ cancelled' = cancelled \ {JobId(gui.post)}
    /\ gui' = IdleGui
    /\ last' = NoOutcome
    /\ UNCHANGED <<now, proc, accounts, posts, lastrowid, execs, task>>

\* SchedulerWidget._edit_post: the dialog is accepted, db.update_scheduled_post(post).
\* The edit button exists for the rows refresh() got from get_pending_posts.
EditPostStore(post_id, scheduled_time) ==
    /\ proc = "up"
    /\ gui = IdleGui
    /\ get_scheduled_post(posts, post_id) \in get_pending_posts(posts)
    /\ posts' = update_scheduled_post(posts, post_id, scheduled_time)
    /\ gui' = [op |-> "edit_cancel", post |-> post_id, run_at |-> scheduled_time,
               account_id |-> posts[post_id].account_id,
               begun |-> RunningOf(JobId(post_id)) # {}]
    /\ last' = NoOutcome
    /\ UNCHANGED <<now, proc, accounts, lastrowid, jobstore, execs, cancelled,
                   task>>

\* the cancel_job call of a command, with what it returned; gui.begun tells
\* whether an execution of the job was in progress when the command was issued
CancelStep(job_id) ==
    LET ok == cancel_job_ok(jobstore, job_id)
        early == jobstore[job_id] # NoJob /\ now < jobstore[job_id].run_at
    IN  /\ jobstore' = cancel_job(jobstore, job_id)
        /\ last' = CancelOutcome(job_id, ok, early, gui.begun)
        /\ cancelled' = IF early THEN cancelled \cup {job_id} ELSE cancelled

\* SchedulerWidget._edit_post: scheduler.cancel_job(f"post_{post_id}")
EditPostCancel ==
    /\ proc = "up"
    /\ gui.op = "edit_cancel"
    /\ CancelStep(JobId(gui.post))
    /\ gui' = [gui EXCEPT !.op = "edit_register"]
    /\ UNCHANGED <<now, proc, accounts, posts, lastrowid, execs, task>>

\* SchedulerWidget._edit_post: db.get_account, scheduler.schedule_post
EditPostRegister ==
    LET account == get_account(accounts, gui.account_id)
        platform_name == IF account # NoAccount THEN account.platform ELSE "facebook"
    IN  /\ proc = "up"
        /\ gui.op = "edit_register"
        /\ jobstore' = schedule_post(jobstore, JobId(gui.post), gui.run_at,
                                     platform_name, gui.account_id)
        /\ cancelled' = cancelled \ {JobId(gui.post)}
        /\ gui' = IdleGui
        /\ last' = NoOutcome
        /\ UNCHANGED <<now, proc, accounts, posts, lastrowid, execs, task>>

\* SchedulerWidget._delete_post_by_id / _remove_selected: db.delete_scheduled_post
DeletePostStore(post_id) ==
    /\ proc = "up"
    /\ gui = IdleGui
    /\ get_scheduled_post(posts, post_id) \in get_pending_posts(posts)
    /\ posts' = delete_scheduled_post(posts, post_id)
    /\ gui' = [op |-> "delete_cancel", post |-> post_id,
               begun |-> RunningOf(JobId(post_id)) # {}]
    /\ last' = NoOutcome
    /\ UNCHANGED <<now, proc, accounts, lastrowid, jobstore, execs, cancelled,
                   task>>

\* SchedulerWidget._delete_post_by_id: scheduler.cancel_job(f"post_{post_id}")
DeletePostCancel ==
    /\ proc = "up"
    /\ gui.op = "delete_cancel"
    /\ CancelStep(JobId(gui.post))
    /\ gui' = IdleGui
    /\ UNCHANGED <<now, proc, accounts, posts, lastrowid, execs, task>>

\* MainWindow.closeEvent: scheduler.stop() -> shutdown(wait=True) begins
Stop ==
    /\ proc = "up"
    /\ gui = IdleGui
    /\ proc' = "stopping"
    /\ last' = NoOutcome
    /\ UNCHANGED <<now, accounts, posts, lastrowid, jobstore, execs, gui,
                   cancelled, task>>

\* shutdown(wait=True) returns once every submitted instance has ended
StopDone ==
    /\ proc = "stopping"
    /\ \A j \in JobIds : execs[j] = <<>>
    /\ proc' = "down"
    /\ last' = NoOutcome
    /\ UNCHANGED <<now, accounts, posts, lastrowid, jobstore, execs, gui,
                   cancelled, task>>

\* the process dies: threads and the executor are gone, both databases stay
Crash ==
    /\ proc # "down"
    /\ proc' = "down"
    /\ execs' = [j \in JobIds |-> <<>>]
    /\ gui' = IdleGui
    /\ last' = NoOutcome
    /\ UNCHANGED <<now, accounts, posts, lastrowid, jobstore, cancelled, task>>

\* a new process: get_scheduler() builds the SchedulerManager over the same
\* scheduler.db and MainWindow.__init__ calls start()
start ==
    /\ proc = "down"
    /\ proc' = "up"
    /\ last' = NoOutcome
    /\ UNCHANGED <<now, accounts, posts, lastrowid, jobstore, execs, gui, cancelled,
                   task>>

\* ------------------------------------------------------ scheduler thread
\* BaseScheduler._process_jobs for one due job with a DateTrigger: submit it
\* (or drop it on MaxInstancesReachedError), then remove it from the job store
Fire(j) ==
    /\ proc = "up"
    /\ jobstore[j] # NoJob
    /\ jobstore[j].run_at <= now
    /\ IF InstancesReached(execs[j])
       THEN /\ last' = _on_job_event("max_instances", j, NoRetval)
            /\ UNCHANGED execs
       ELSE /\ execs' = [execs EXCEPT ![j] =
                            Append(@, Instance(jobstore[j], jobstore[j].run_at))]
            /\ last' = NoOutcome
    /\ jobstore' = [jobstore EXCEPT ![j] = NoJob]
    /\ UNCHANGED <<now, proc, accounts, posts, lastrowid, gui, cancelled, task>>

\* ---------------------------------------------------------- worker pool
\* a pool thread takes the instance: run_job checks the misfire grace time and
\* either reports EVENT_JOB_MISSED or calls execute_scheduled_post
WorkerStart(j, i) ==
    /\ proc # "down"
    /\ i \in QueuedOf(j)
    /\ RunningCount < max_workers
    /\ IF Missed(execs[j][i].run_time, now)
       THEN /\ execs' = [execs EXCEPT ![j] = RemoveAt(@, i)]
            /\ last' = _on_job_event("missed", j, NoRetval)
       ELSE /\ execs' = [execs EXCEPT ![j][i].st = "running"]
            /\ last' = NoOutcome
    /\ UNCHANGED <<now, proc, accounts, posts, lastrowid, jobstore, gui,
                   cancelled, task>>

\* execute_scheduled_post returns; the executor reports EVENT_JOB_EXECUTED
WorkerFinish(j, i, env) ==
    LET retval == execute_scheduled_post(execs[j][i].platform, execs[j][i].account_id,
                                         accounts, env)
    IN  /\ proc # "down"
        /\ i \in RunningOf(j)
        /\ execs' = [execs EXCEPT ![j] = RemoveAt(@, i)]
        /\ last' = _on_job_event("executed", j, retval)
        /\ UNCHANGED <<now, proc, accounts, posts, lastrowid, jobstore, gui,
                       cancelled, task>>

Usernames == {"alice"}
\* the platforms of the connected accounts and what the collaborators answer
\* in the pipeline runs: one tag per branch of execute_scheduled_post
ConnectedPlatforms == {"facebook", "linkedin"}
PipelineEnvs ==
    [fb : {"success", "failed"}, restore : {"true", "false"}, decrypt : {"ok"},
     login : {"true"}, publish : {"success", "failed"}, url : {"https://demo/post/42"},
     message : {<<"publisher", "message">>}]

Next ==
    \/ Tick(1)
    \/ \E pl \in ConnectedPlatforms, u \in Usernames, d \in 0..MaxDelay :
          /\ now + d <= MaxTime
          /\ HandleScheduleStore(pl, u, now + d)
    \/ HandleScheduleRegister
    \/ \E p \in PostIds, d \in 0..MaxDelay :
          /\ now + d <= MaxTime
          /\ EditPostStore(p, now + d)
    \/ EditPostCancel
    \/ EditPostRegister
    \/ \E p \in PostIds : DeletePostStore(p)
    \/ DeletePostCancel
    \/ Stop
    \/ StopDone
    \/ Crash
    \/ start
    \/ \E j \in JobIds : Fire(j)
    \/ \E j \in JobIds, i \in 1..(max_instances + 1) : WorkerStart(j, i)
    \/ \E j \in JobIds, i \in 1..(max_instances + 1), env \in PipelineEnvs : WorkerFinish(j, i, env)

Spec == Init /\ [][Next]_vars

\* ============================================================= SpecStore
\* The Post Store API called in any order with any arguments.
StoreStatuses == PostStatusEnum
StoreMessages == {Null, "message"}

StoreAdd(account_id, scheduled_time) ==
    /\ lastrowid < MaxPosts
    /\ posts' = add_scheduled_post(posts, lastrowid + 1, account_id, scheduled_time)
    /\ lastrowid' = lastrowid + 1
    /\ UNCHANGED <<now, proc, accounts, jobstore, execs, gui, last, cancelled, task>>

StoreUpdateStatus(post_id, status, result_message, post_url) ==
    /\ posts' = update_post_status(posts, post_id, status, result_message, post_url, now)
    /\ UNCHANGED <<now, proc, accounts, lastrowid, jobstore, execs, gui, last,
                   cancelled, task>>

StoreUpdateScheduledPost(post_id, scheduled_time) ==
    /\ posts' = update_scheduled_post(posts, post_id, scheduled_time)
    /\ UNCHANGED <<now, proc, accounts, lastrowid, jobstore, execs, gui, last,
                   cancelled, task>>

StoreDelete(post_id) ==
    /\ posts' = delete_scheduled_post(posts, post_id)
    /\ UNCHANGED <<now, proc, accounts, lastrowid, jobstore, execs, gui, last,
                   cancelled, task>>

StoreTick ==
    /\ now < MaxTime
    /\ now' = now + 1
    /\ UNCHANGED <<proc, accounts, posts, lastrowid, jobstore, execs, gui, last,
                   cancelled, task>>

NextStore ==
    \/ \E t \in 0..MaxTime : StoreAdd(1, t)
    \/ \E p \in 1..(MaxPosts + 1), st \in StoreStatuses, m \in StoreMessages, u \in Urls :
          StoreUpdateStatus(p, st, m, u)
    \/ \E p \in 1..(MaxPosts + 1), t \in 0..MaxTime : StoreUpdateScheduledPost(p, t)
    \/ \E p \in 1..(MaxPosts + 1) : StoreDelete(p)
    \/ StoreTick

SpecStore == Init /\ [][NextStore]_vars

\* ============================================================== SpecTask
\* One call of execute_scheduled_post for every platform tag, every state
\* of the account row it looks up and every answer of its collaborators.
TaskAccountRows ==
    {AccountRow(1, "linkedin", "alice", pw, active) :
        pw \in {Null, "blob"}, active \in BOOLEAN}
TaskTables == {<<>>} \cup {<<row>> : row \in TaskAccountRows}

InitTask ==
    /\ now = 0
    /\ proc = "up"
    /\ accounts \in TaskTables
    /\ posts = [p \in PostIds |-> NoRow]
    /\ lastrowid = 0
    /\ jobstore = [j \in JobIds |-> NoJob]
    /\ execs = [j \in JobIds |-> <<>>]
    /\ gui = IdleGui
    /\ last = NoOutcome
    /\ cancelled = {}
    /\ task \in [pc : {"ready"}, platform : PlatformTags, account_id : {1},
                 env : Envs, result : {TaskResult(Null, <<>>, Null, <<>>, FALSE)}]

RunTask ==
    /\ task.pc = "ready"
    /\ task' = [task EXCEPT !.pc = "done",
                  !.result = execute_scheduled_post(task.platform, task.account_id,
                                                    accounts, task.env)]
    /\ UNCHANGED <<now, proc, accounts, posts, lastrowid, jobstore, execs, gui, last,
                   cancelled>>

NextTask == RunTask

SpecTask == InitTask /\ [][NextTask]_vars

\* =========================================================== SpecAccounts
\* The account API of src/data/database.py called in any order with any
\* arguments; last holds what the call returned.
Return(op, id, value) == [kind |-> "return", op |-> op, id |-> id, value |-> value]

\* mutant: the accounts table has no UNIQUE constraint
UniqueViolatedOff(table, id, platform, username) == FALSE

\* UNIQUE(platform, username) of table accounts: sqlite3.IntegrityError
UniqueViolated(table, id, platform, username) ==
    \E i \in 1..Len(table) :
        i # id /\ table[i].platform = platform /\ table[i].username = username

\* Database.add_account: INSERT INTO accounts, returns cursor.lastrowid
add_account(table, platform, username, encrypted_password, is_active) ==
    Append(table, AccountRow(Len(table) + 1, platform, username,
                             encrypted_password, is_active))

\* Database.get_accounts_by_platform: WHERE platform = ? AND is_active = 1
get_accounts_by_platform(table, platform) ==
    SelectSeq(table, LAMBDA a : a.platform = platform /\ a.is_active)

\* Database.update_account: UPDATE accounts SET ... WHERE id = ?
update_account(table, id, platform, username, encrypted_password, is_active) ==
    IF id \in 1..Len(table)
    THEN [table EXCEPT ![id] = AccountRow(id, platform, username,
                                          encrypted_password, is_active)]
    ELSE table

\* Database.delete_account: UPDATE accounts SET is_active = 0 WHERE id = ?
delete_account(table, id) ==
    IF id \in 1..Len(table) THEN [table EXCEPT ![id].is_active = FALSE] ELSE table

\* cursor.rowcount > 0 of an UPDATE ... WHERE id = ? on accounts
AccountRowcount(table, id) == IF id \in 1..Len(table) THEN "True" ELSE "False"

AccountPlatforms == {"facebook", "linkedin"}
AccountNames == {"alice", "bob"}
Passwords == {Null, "blob"}
AccountIds == 1..(MaxAccounts + 1)

AccountAdd(platform, username, encrypted_password, is_active) ==
    /\ Len(accounts) < MaxAccounts
    /\ IF UniqueViolated(accounts, 0, platform, username)
       THEN /\ last' = Return("add_account", 0, "raise")
            /\ UNCHANGED accounts
       ELSE /\ accounts' = add_account(accounts, platform, username,
                                       encrypted_password, is_active)
            /\ last' = Return("add_account", Len(accounts) + 1, "id")
    /\ UNCHANGED <<now, proc, posts, lastrowid, jobstore, execs, gui, cancelled, task>>

AccountUpdate(id, platform, username, encrypted_password, is_active) ==
    /\ IF id \in 1..Len(accounts) /\ UniqueViolated(accounts, id, platform, username)
       THEN /\ last' = Return("update_account", id, "raise")
            /\ UNCHANGED accounts
       ELSE /\ accounts' = update_account(accounts, id, platform, username,
                                          encrypted_password, is_active)
            /\ last' = Return("update_account", id, AccountRowcount(accounts, id))
    /\ UNCHANGED <<now, proc, posts, lastrowid, jobstore, execs, gui, cancelled, task>>

AccountDelete(id) ==
    /\ accounts' = delete_account(accounts, id)
    /\ last' = Return("delete_account", id, AccountRowcount(accounts, id))
    /\ UNCHANGED <<now, proc, posts, lastrowid, jobstore, execs, gui, cancelled, task>>

NextAccounts ==
    \/ \E pl \in AccountPlatforms, u \in AccountNames, pw \in Passwords, a \in BOOLEAN :
          AccountAdd(pl, u, pw, a)
    \/ \E id \in AccountIds, pl \in AccountPlatforms, u \in AccountNames,
          pw \in Passwords, a \in BOOLEAN : AccountUpdate(id, pl, u, pw, a)
    \/ \E id \in AccountIds : AccountDelete(id)

SpecAccounts == Init /\ [][NextAccounts]_vars

\* ============================================================= SpecSched
\* schedule_post, reschedule_job and cancel_job of the SchedulerManager called
\* in any order with any arguments on a started scheduler. task keeps, per job
\* id, the due time of the most recent schedule_post or successful
\* reschedule_job and the payload of the most recent schedule_post; last
\* holds the call just made.
SchedPlatforms == {"facebook", "linkedin"}
SchedAccountIds == 1..MaxAccounts
Call(op, job_id, ok, existed) ==
    [kind |-> "call", op |-> op, job |-> job_id, ok |-> ok, existed |-> existed]

InitSched ==
    /\ now = 0
    /\ proc = "up"
    /\ accounts = <<>>
    /\ posts = [p \in PostIds |-> NoRow]
    /\ lastrowid = 0
    /\ jobstore = [j \in JobIds |-> NoJob]
    /\ execs = [j \in JobIds |-> <<>>]
    /\ gui = IdleGui
    /\ last = NoOutcome
    /\ cancelled = {}
    /\ task = [pc |-> "calls", due |-> [j \in JobIds |-> NoTime],
               payload |-> [j \in JobIds |-> <<Null, 0>>]]

SchedSchedulePost(job_id, run_at, platform, account_id) ==
    /\ jobstore' = schedule_post(jobstore, job_id, run_at, platform, account_id)
    /\ task' = [task EXCEPT !.due[job_id] = run_at,
                            !.payload[job_id] = <<platform, account_id>>]
    /\ last' = Call("schedule_post", job_id, TRUE, jobstore[job_id] # NoJob)
    /\ UNCHANGED <<now, proc, accounts, posts, lastrowid, execs, gui, cancelled>>

SchedRescheduleJob(job_id, new_time) ==
    /\ jobstore' = reschedule_job(jobstore, job_id, new_time)
    /\ task' = IF reschedule_job_ok(jobstore, job_id)
               THEN [task EXCEPT !.due[job_id] = new_time] ELSE task
    /\ last' = Call("reschedule_job", job_id, reschedule_job_ok(jobstore, job_id),
                    jobstore[job_id] # NoJob)
    /\ UNCHANGED <<now, proc, accounts, posts, lastrowid, execs, gui, cancelled>>

SchedCancelJob(job_id) ==
    /\ jobstore' = cancel_job(jobstore, job_id)
    /\ last' = Call("cancel_job", job_id, cancel_job_ok(jobstore, job_id),
                    jobstore[job_id] # NoJob)
    /\ UNCHANGED <<now, proc, accounts, posts, lastrowid, execs, gui, cancelled,
                   task>>

NextSched ==
    \/ \E j \in JobIds, t \in 0..MaxTime, pl \in SchedPlatforms, a \in SchedAccountIds :
          SchedSchedulePost(j, t, pl, a)
    \/ \E j \in JobIds, t \in 0..MaxTime : SchedRescheduleJob(j, t)
    \/ \E j \in JobIds : SchedCancelJob(j)

SpecSched == InitSched /\ [][NextSched]_vars

\* ============================================================== SpecStop
\* Posts are scheduled and executed and the application is closed. The
\* scheduling the code relies on: shutdown(wait=True) returns once the pool has
\* drained, and a pool thread takes every submitted instance. Nothing makes
\* execute_scheduled_post return: the browser automation it drives may hang.
NextStop ==
    \/ Tick(1)
    \/ \E pl \in ConnectedPlatforms, u \in Usernames, d \in 0..MaxDelay :
          /\ now + d <= MaxTime
          /\ HandleScheduleStore(pl, u, now + d)
    \/ HandleScheduleRegister
    \/ Stop
    \/ StopDone
    \/ \E j \in JobIds : Fire(j)
    \/ \E j \in JobIds, i \in 1..(max_instances + 1) : WorkerStart(j, i)
    \/ \E j \in JobIds, i \in 1..(max_instances + 1), env \in PipelineEnvs :
          WorkerFinish(j, i, env)

SpecStop ==
    /\ Init
    /\ [][NextStop]_vars
    /\ WF_vars(StopDone)
    /\ WF_vars(\E j \in JobIds, i \in 1..(max_instances + 1) : WorkerStart(j, i))

\* ============================================================= SpecCrypt
\* CredentialEncryption.encrypt / decrypt and Account.set_password /
\* get_decrypted_password for every credential string up to MaxLen characters.
\* A string is the sequence of its code points, bytes are numbers 0..255.
MaxLen == 2

\* one character for each length of the UTF-8 encoding: "A", e acute, the euro
\* sign, an emoji
CodePoints == {65, 233, 8364, 128512}
Strings == UNION {[1..n -> CodePoints] : n \in 0..MaxLen}
Keys == {"key1", "key2"}
Ivs == {1, 2}

\* str.encode() (UTF-8) of one character
EncodeChar(cp) ==
    IF cp < 128 THEN <<cp>>
    ELSE IF cp < 2048 THEN <<192 + (cp \div 64), 128 + (cp % 64)>>
    ELSE IF cp < 65536
    THEN <<224 + (cp \div 4096), 128 + ((cp \div 64) % 64), 128 + (cp % 64)>>
    ELSE <<240 + (cp \div 262144), 128 + ((cp \div 4096) % 64),
           128 + ((cp \div 64) % 64), 128 + (cp % 64)>>

\* str.encode()
RECURSIVE encode(_)
encode(s) == IF s = <<>> THEN <<>> ELSE EncodeChar(Head(s)) \o encode(Tail(s))

\* number of bytes of the UTF-8 sequence that starts with this byte
Width(lead) ==
    IF lead < 128 THEN 1 ELSE IF lead < 224 THEN 2 ELSE IF lead < 240 THEN 3 ELSE 4

\* the character of one UTF-8 sequence
DecodeChar(u) ==
    CASE Len(u) = 1 -> u[1]
      [] Len(u) = 2 -> (u[1] - 192) * 64 + (u[2] - 128)
      [] Len(u) = 3 -> (u[1] - 224) * 4096 + (u[2] - 128) * 64 + (u[3] - 128)
      [] OTHER -> (u[1] - 240) * 262144 + (u[2] - 128) * 4096
                     + (u[3] - 128) * 64 + (u[4] - 128)

\* mutant: the bytes are decoded as Latin-1, one character per byte
RECURSIVE decode_latin1(_)
decode_latin1(b) == IF b = <<>> THEN <<>> ELSE <<Head(b)>> \o decode_latin1(Tail(b))

\* bytes.decode() (UTF-8)
RECURSIVE decode(_)
decode(b) ==
    IF b = <<>> THEN <<>>
    ELSE <<DecodeChar(SubSeq(b, 1, Width(b[1])))>>
            \o decode(SubSeq(b, Width(b[1]) + 1, Len(b)))

\* Fernet(key).encrypt(data): a token that carries the data sealed under the
\* key with a fresh random IV; Fernet(key).decrypt(token) gives the data back
\* under the same key and raises InvalidToken under any other
Raised == [raised |-> TRUE, value |-> <<>>]
Returned(value) == [raised |-> FALSE, value |-> value]

\* CredentialEncryption.encrypt: self.fernet.encrypt(plaintext.encode())
encrypt(key, plaintext, iv) == [key |-> key, iv |-> iv, data |-> encode(plaintext)]

\* CredentialEncryption.decrypt: self.fernet.decrypt(ciphertext).decode()
decrypt(key, ciphertext) ==
    IF ciphertext.key = key THEN Returned(decode(ciphertext.data)) ELSE Raised

NoToken == [key |-> Null]

\* Account.set_password
set_password(account, password, key, iv) ==
    [account EXCEPT !.encrypted_password = encrypt(key, password, iv),
                    !.plain_password = <<>>]

\* Account.get_decrypted_password; an empty _plain_password or
\* encrypted_password is falsy
get_decrypted_password(account, key) ==
    IF account.plain_password # <<>> THEN Returned(account.plain_password)
    ELSE IF account.encrypted_password # NoToken
    THEN decrypt(key, account.encrypted_password)
    ELSE Raised

InitCrypt ==
    /\ now = 0
    /\ proc = "up"
    /\ accounts = <<>>
    /\ posts = [p \in PostIds |-> NoRow]
    /\ lastrowid = 0
    /\ jobstore = [j \in JobIds |-> NoJob]
    /\ execs = [j \in JobIds |-> <<>>]
    /\ gui = IdleGui
    /\ last = NoOutcome
    /\ cancelled = {}
    /\ task \in [pc : {"ready"}, x : Strings, key : Keys, key2 : Keys,
                 token : {NoToken},
                 account : {[encrypted_password |-> NoToken, plain_password |-> <<>>]},
                 out : {Raised}]

\* encrypted = enc.encrypt(x)
CryptEncrypt(iv) ==
    /\ task.pc = "ready"
    /\ task' = [task EXCEPT !.pc = "encrypted", !.token = encrypt(task.key, task.x, iv)]
    /\ UNCHANGED <<now, proc, accounts, posts, lastrowid, jobstore, execs, gui, last,
                   cancelled>>

\* enc2.decrypt(encrypted), enc2 built with key2
CryptDecrypt ==
    /\ task.pc = "encrypted"
    /\ task' = [task EXCEPT !.pc = "decrypted", !.out = decrypt(task.key2, task.token)]
    /\ UNCHANGED <<now, proc, accounts, posts, lastrowid, jobstore, execs, gui, last,
                   cancelled>>

\* account.set_password(x, enc)
CryptSetPassword(iv) ==
    /\ task.pc = "ready"
    /\ task' = [task EXCEPT !.pc = "stored",
                  !.account = set_password(task.account, task.x, task.key, iv)]
    /\ UNCHANGED <<now, proc, accounts, posts, lastrowid, jobstore, execs, gui, last,
                   cancelled>>

\* account.get_decrypted_password(enc2)
CryptGetDecryptedPassword ==
    /\ task.pc = "stored"
    /\ task' = [task EXCEPT !.pc = "got",
                  !.out = get_decrypted_password(task.account, task.key2)]
    /\ UNCHANGED <<now, proc, accounts, posts, lastrowid, jobstore, execs, gui, last,
                   cancelled>>

NextCrypt ==
    \/ \E iv \in Ivs : CryptEncrypt(iv)
    \/ CryptDecrypt
    \/ \E iv \in Ivs : CryptSetPassword(iv)
    \/ CryptGetDecryptedPassword

SpecCrypt == InitCrypt /\ [][NextCrypt]_vars

\* ========================================================== SpecFacebook
\* One call of BrowserDOMPoster.post_to_facebook, step by step, for every
\* media list and every answer of the session manager, the browser and the
\* page. task.depth is the number of nested invocations of
\* _async_post_to_facebook below the first one.
MaxMedia == 2
\* nested invocations the interpreter allows before it raises RecursionError
\* (sys.getrecursionlimit(), scaled down)
RecursionLimit == 3

MediaPaths == {"a.jpg", "b.png", "missing.jpg"}
\* Path(path).exists()
Exists(path) == path \in {"a.jpg", "b.png"}
MediaLists == UNION {[1..n -> MediaPaths] : n \in 0..MaxMedia}

\* _upload_media: "Verify files exist first"
valid_paths(media_paths) == SelectSeq(media_paths, Exists)

FbResult(success, message) == [success |-> success, message |-> message]
NoFbResult == [success |-> FALSE, message |-> Null]

\* mutant: the retry is a loop, it does not nest
SameDepth(depth) == depth

\* "return await self._async_post_to_facebook(...)": one more nested invocation
NextDepth(depth) == depth + 1

InitFacebook ==
    /\ now = 0
    /\ proc = "up"
    /\ accounts = <<>>
    /\ posts = [p \in PostIds |-> NoRow]
    /\ lastrowid = 0
    /\ jobstore = [j \in JobIds |-> NoJob]
    /\ execs = [j \in JobIds |-> <<>>]
    /\ gui = IdleGui
    /\ last = NoOutcome
    /\ cancelled = {}
    /\ task \in [pc : {"enter"}, depth : {0}, media : MediaLists,
                 has_session : BOOLEAN, authenticates : {0}, launches : {0},
                 uploaded : {<<>>}, result : {NoFbResult}]

\* the counters of calls made so far; one invocation makes at most
\* RecursionLimit + 2 calls of either kind, the counters stop there
Counted(n) == IF n < RecursionLimit + 2 THEN n + 1 ELSE n

FbReturn(success, message) ==
    [task EXCEPT !.pc = "returned", !.result = FbResult(success, message)]

FbUnchanged ==
    UNCHANGED <<now, proc, accounts, posts, lastrowid, jobstore, execs, gui, last,
                cancelled>>

\* "if not self.session_manager.has_session(platform)"
FbEnter ==
    /\ task.pc = "enter"
    /\ task' = [task EXCEPT !.pc = IF task.has_session THEN "launch" ELSE "authenticate"]
    /\ FbUnchanged

\* the first session_manager.authenticate; a success saves the session
FbAuthenticate(success) ==
    /\ task.pc = "authenticate"
    /\ task' = IF success
               THEN [task EXCEPT !.pc = "launch", !.has_session = TRUE,
                                 !.authenticates = Counted(@)]
               ELSE [FbReturn(FALSE, "Authentication required")
                        EXCEPT !.authenticates = Counted(@)]
    /\ FbUnchanged

\* browser config, chromium.launch, cookies, page.goto and the c_user check
FbLaunch(outcome) ==
    /\ task.pc = "launch"
    /\ task' =
         CASE outcome = "no_browser" -> FbReturn(FALSE, "No browser configured")
           [] outcome = "raise" ->
                [FbReturn(FALSE, "Error") EXCEPT !.launches = Counted(@)]
           [] outcome = "expired" ->
                [task EXCEPT !.pc = "reauthenticate", !.launches = Counted(@)]
           [] OTHER -> [task EXCEPT !.pc = "compose", !.launches = Counted(@)]
    /\ FbUnchanged

\* "Session expired, need to re-authenticate": authenticate again and, on
\* success, call _async_post_to_facebook again. The nested call raises
\* RecursionError when the interpreter's limit is reached; the except clause
\* of the caller turns it into (False, "Error: ...").
FbReauthenticate(success) ==
    /\ task.pc = "reauthenticate"
    /\ task' =
         IF ~success
         THEN [FbReturn(FALSE, "Session expired and re-authentication failed")
                  EXCEPT !.authenticates = Counted(@)]
         ELSE IF NextDepth(task.depth) > RecursionLimit
         THEN [FbReturn(FALSE, "Error") EXCEPT !.authenticates = Counted(@)]
         ELSE [task EXCEPT !.pc = "enter", !.depth = NextDepth(@),
                           !.has_session = TRUE, !.authenticates = Counted(@)]
    /\ FbUnchanged

\* open the composer, find the text input, enter the text
FbCompose(outcome) ==
    /\ task.pc = "compose"
    /\ task' =
         CASE outcome = "no_input" -> FbReturn(FALSE, "Could not find text input")
           [] outcome = "no_text" -> FbReturn(FALSE, "Failed to enter text")
           [] outcome = "raise" -> FbReturn(FALSE, "Error")
           [] OTHER -> [task EXCEPT !.pc = "upload"]
    /\ FbUnchanged

\* "if media_paths:" _upload_media, which returns False when no path exists
FbUploadMedia(uploaded) ==
    /\ task.pc = "upload"
    /\ task' =
         IF task.media = <<>> THEN [task EXCEPT !.pc = "post"]
         ELSE IF valid_paths(task.media) = <<>> \/ ~uploaded
         THEN FbReturn(FALSE, "Media upload failed")
         ELSE [task EXCEPT !.pc = "post", !.uploaded = valid_paths(task.media)]
    /\ FbUnchanged

\* find and click Post, verify
FbPost(outcome) ==
    /\ task.pc = "post"
    /\ task' =
         CASE outcome = "posted" -> FbReturn(TRUE, "Posted successfully!")
           [] outcome = "no_button" -> FbReturn(FALSE, "Could not find Post button")
           [] outcome = "raise" -> FbReturn(FALSE, "Error")
           [] OTHER -> FbReturn(FALSE, "Post verification failed")
    /\ FbUnchanged

NextFacebook ==
    \/ FbEnter
    \/ \E success \in BOOLEAN : FbAuthenticate(success)
    \/ \E outcome \in {"no_browser", "raise", "expired", "logged_in"} : FbLaunch(outcome)
    \/ \E success \in BOOLEAN : FbReauthenticate(success)
    \/ \E outcome \in {"no_input", "no_text", "raise", "ok"} : FbCompose(outcome)
    \/ \E uploaded \in BOOLEAN : FbUploadMedia(uploaded)
    \/ \E outcome \in {"posted", "no_button", "raise", "unverified"} : FbPost(outcome)

\* every browser and authentication step returns
SpecFacebook == InitFacebook /\ [][NextFacebook]_vars /\ WF_vars(NextFacebook)

\* ================================================================ claims
Running(j) == Cardinality(RunningOf(j))
RowOf(j) == posts[PostOf(j)]
HasRow(j) == posts[PostOf(j)] # NoRow

\* C1: for every job id at most one execution is in progress at any moment,
\* and a timer fire that finds an instance of the job still submitted or
\* running is dropped: it adds no second instance.
C1_SingleInstance ==
    /\ \A j \in JobIds : Running(j) <= 1
    /\ (last.kind = "event" /\ last.code = "max_instances") =>
          Len(execs[last.job]) <= max_instances

\* a duplicate fire was dropped while the job was running
C1_Witness ==
    /\ last.kind = "event"
    /\ last.code = "max_instances"
    /\ Running(last.job) = 1

\* C2 (as claimed): when the execution of a fired timer has completed, its
\* outcome is recorded in the Post Store: the row carries a terminal status
\* and the result message.
C2_OutcomeRecorded ==
    (last.kind = "event" /\ last.code = "executed" /\ HasRow(last.job)) =>
        /\ RowOf(last.job).status \in {"success", "failed"}
        /\ RowOf(last.job).result_message # Null

\* C3 (as claimed): an execution never begins before the due time recorded
\* for the post in the Post Store nor later than that due time plus the grace.
C3_StartWithinWindow ==
    [][\A j \in JobIds :
          (Running(j)' > Running(j) /\ HasRow(j)) =>
              /\ RowOf(j).scheduled_time <= now
              /\ now <= RowOf(j).scheduled_time + MisfireGraceTime]_vars

\* C4 (as claimed): a cancel_job call made strictly before the due time of a
\* registered job returns true, and from then on no execution of that job id
\* begins (until schedule_post registers the id again).
C4_CancelledNeverRuns ==
    [][/\ (last'.kind = "cancel" /\ last'.early) => last'.ok
       /\ \A j \in JobIds :
             (j \in cancelled /\ j \in cancelled') => Running(j)' <= Running(j)]_vars

\* C5 (as claimed): when a cancel or delete command is issued while the
\* execution of the job is in progress, its cancel_job call returns false and
\* the post's row still exists in the Post Store.
C5_CancelAfterBegin ==
    (last.kind = "cancel" /\ last.begun) =>
        /\ ~last.ok
        /\ HasRow(last.job)

\* C6 (as claimed): after a restart followed by start() the registered timers
\* are exactly the PENDING posts of the Post Store, each with its due time.
C6_RestartRebuildsTimers ==
    [][(proc = "down" /\ proc' = "up") =>
          \A p \in PostIds :
             /\ (jobstore'[JobId(p)] # NoJob) <=> (posts'[p] \in get_pending_posts(posts'))
             /\ (jobstore'[JobId(p)] # NoJob) =>
                    jobstore'[JobId(p)].run_at = posts'[p].scheduled_time]_vars

C8_TerminalIsFinal ==
    [][\A p \in PostIds :
          (posts[p] # NoRow /\ posts[p].status \in Terminal /\ posts'[p] # NoRow) =>
              posts'[p].status = posts[p].status]_vars

\* C9 (as claimed): when the execution returned success with result locator L,
\* the post's row has status SUCCESS, post_url L, a result message and a
\* non-null executed_at.
C9_SuccessRecorded ==
    (last.kind = "event" /\ last.code = "executed" /\ last.status = "success"
        /\ last.post_url # Null /\ HasRow(last.job)) =>
        /\ RowOf(last.job).status = "success"
        /\ RowOf(last.job).post_url = last.post_url
        /\ RowOf(last.job).result_message # Null
        /\ RowOf(last.job).executed_at # NoTime

\* the case of C10: a platform with a driver class, the account row exists
\* without an encrypted credential, and session restoration fails
C10_Case ==
    /\ task.pc = "done"
    /\ Lower(task.platform) \in PLATFORM_CLASSES \ {"facebook"}
    /\ get_account(accounts, task.account_id) # NoAccount
    /\ get_account(accounts, task.account_id).encrypted_password = Null
    /\ task.env.restore \in {"false", "raise"}

C11_Failure ==
    LET platform_key == Lower(task.platform)
        account == get_account(accounts, task.account_id)
        login_needed == task.env.restore # "true"
        logged_in == ~login_needed \/
                        (/\ account.encrypted_password # Null
                         /\ task.env.decrypt = "ok"
                         /\ task.env.login = "true")
    IN  /\ task.pc = "done"
        /\ IF platform_key = "facebook" THEN task.env.fb = "raise"
           ELSE \/ platform_key \notin PLATFORM_CLASSES
                \/ account = NoAccount
                \/ ~logged_in
                \/ task.env.publish = "raise"

\* C11 (as claimed): for every failure inside execute_scheduled_post the
\* returned result has status failed and a message that is present and
\* non-empty.
C11_FailureHasMessage ==
    C11_Failure =>
        /\ task.result.status = "failed"
        /\ task.result.message # <<>>

\* C12 (as claimed): after delete_account(id) on an existing account the row
\* is retained, get_account(id) returns None, and the account appears in
\* neither get_all_accounts() nor get_accounts_by_platform().
C12_DeletedExcluded ==
    (last.kind = "return" /\ last.op = "delete_account" /\ last.value = "True") =>
        /\ last.id \in 1..Len(accounts)
        /\ get_account(accounts, last.id) = NoAccount
        /\ \A a \in {get_all_accounts(accounts)[i] :
                        i \in 1..Len(get_all_accounts(accounts))} : a.id # last.id
        /\ \A pl \in AccountPlatforms :
              \A a \in {get_accounts_by_platform(accounts, pl)[i] :
                           i \in 1..Len(get_accounts_by_platform(accounts, pl))} :
                 a.id # last.id

\* C13 (as claimed): in every state of the Post Store, update_post_status,
\* update_scheduled_post and delete_scheduled_post called with an id that
\* matches no row leave the table unchanged and return a value that differs
\* from the value the same operation returns for an id that matches a row.
C13_NotFoundSignalled ==
    \A missing \in 1..(MaxPosts + 1) : \A found \in PostIds :
        (get_scheduled_post(posts, missing) = NoRow /\ posts[found] # NoRow) =>
            /\ \A st \in StoreStatuses :
                  update_post_status(posts, missing, st, Null, Null, now) = posts
            /\ \A t \in 0..MaxTime : update_scheduled_post(posts, missing, t) = posts
            /\ delete_scheduled_post(posts, missing) = posts
            /\ update_scheduled_post_returns(posts, missing) #
                  update_scheduled_post_returns(posts, found)
            /\ delete_scheduled_post_returns(posts, missing) #
                  delete_scheduled_post_returns(posts, found)
            /\ update_post_status_returns(posts, missing) #
                  update_post_status_returns(posts, found)

\* C14 (as claimed): once the execution of a post has begun, no step changes
\* the due time recorded for the post in the Post Store.
C14_DueTimeImmutable ==
    [][\A j \in JobIds :
          (Running(j) > 0 /\ HasRow(j) /\ posts'[PostOf(j)] # NoRow) =>
              posts'[PostOf(j)].scheduled_time = RowOf(j).scheduled_time]_vars

C16_DeleteCancelsTimer ==
    [][/\ (gui.op = "delete_cancel" /\ gui'.op = "idle" /\ proc' = "up") =>
              jobstore'[JobId(gui.post)] = NoJob
       /\ \A j \in JobIds :
              Running(j)' > Running(j) => posts'[PostOf(j)] # NoRow]_vars

\* C17 (as claimed): stop() eventually returns, also when an execution in
\* flight never completes.
C17_StopReturns == (proc = "stopping") ~> (proc = "down")

\* C18 (as claimed): for every job that ends exactly one event hook fires:
\* the executed hook if and only if the post ended SUCCESS, the failed hook
\* if and only if it ended FAILED, the missed hook if and only if the run was
\* skipped as a misfire.
C18_ExactlyOneHook ==
    (last.kind = "event" /\ last.code \in {"executed", "error", "missed"}) =>
        CallbacksCalled(last.code) =
            {CASE last.code = "missed" -> "on_job_missed"
               [] last.code = "executed" /\ last.status = "success" -> "on_job_executed"
               [] OTHER -> "on_job_error"}

\* C19: in every state of the Post Store get_pending_posts returns a list
\* that holds exactly the posts whose status is PENDING, each exactly once,
\* in non-decreasing order of due time.
C19_PendingOrdered ==
    /\ get_pending_posts_ordered(posts) # {}
    /\ \A s \in get_pending_posts_ordered(posts) :
          /\ \A p \in PostIds :
                Cardinality({i \in DOMAIN s : s[i].id = p}) =
                    IF posts[p] # NoRow /\ posts[p].status = "pending" THEN 1 ELSE 0
          /\ \A i \in DOMAIN s : s[i] = posts[s[i].id]
          /\ \A i, k \in DOMAIN s :
                i < k => s[i].scheduled_time <= s[k].scheduled_time

\* two pending posts, the one inserted first is due later (00:10 against
\* 00:05), so the list is not in order of insertion
C19_Witness ==
    /\ posts[1] # NoRow /\ posts[2] # NoRow
    /\ posts[1].status = "pending" /\ posts[2].status = "pending"
    /\ posts[1].scheduled_time = 2 /\ posts[2].scheduled_time = 1
    /\ \A s \in get_pending_posts_ordered(posts) : s[1].id = 2 /\ s[2].id = 1

C21_RunningWhileExecuting ==
    \A j \in JobIds :
        (Running(j) > 0 /\ HasRow(j)) =>
            /\ RowOf(j).status = "running"
            /\ RowOf(j) \notin get_pending_posts(posts)

\* C22 (as claimed): for every platform with a publisher, facebook included,
\* when the account id refers to no account or to an inactive account, the
\* task returns FAILED with the "account not found" message and invokes
\* neither session restore nor Login nor Publish.
C22_MissingAccountFails ==
    (/\ task.pc = "done"
     /\ Lower(task.platform) \in PLATFORM_CLASSES
     /\ \/ get_account(accounts, task.account_id) = NoAccount
        \/ ~get_account(accounts, task.account_id).is_active) =>
        /\ task.result.status = "failed"
        /\ task.result.message = MsgAccountNotFound(task.account_id)
        /\ \A call \in {"post_to_facebook", "try_restore_session", "login",
                        "create_post"} : ~Contains(task.result.calls, call)

\* C23 (as claimed): on every exit path of a run that acquired the browser
\* (driver.login or driver.create_post was called, which start or use the
\* WebDriver), the browser has been closed when the task returns.
C23_SessionReleased ==
    (/\ task.pc = "done"
     /\ \/ Contains(task.result.calls, "login")
        \/ Contains(task.result.calls, "create_post")) =>
        task.result.closed

C29_RegisteredTagsResolve ==
    (task.pc = "done" /\ task.platform \in SocialPlatform) =>
        /\ Lower(task.platform) \in PLATFORM_CLASSES
        /\ task.result.message # MsgUnknownPlatform(task.platform)

\* C25 (as claimed): the media handed to the Facebook publisher is the
\* subsequence of the post's media whose files exist, and missing files never
\* make the post fail, also when every referenced file is missing.
C25_MissingMediaDropped ==
    /\ task.pc = "post" => task.uploaded = SelectSeq(task.media, Exists)
    /\ (task.pc = "returned" /\ task.result.message = "Media upload failed") =>
          \E i \in 1..Len(task.media) : Exists(task.media[i])

\* C26 (as claimed): within one invocation authentication and the publish
\* attempt (launching the browser on the saved session) are each performed at
\* most once.
C26_NoRetry ==
    /\ task.authenticates <= 1
    /\ task.launches <= 1

C27_TimersMatchPendingRows ==
    [][(gui # IdleGui /\ gui' = IdleGui /\ proc' = "up") =>
          \A p \in PostIds :
             /\ (jobstore'[JobId(p)] # NoJob) <=>
                    (posts'[p] # NoRow /\ posts'[p].status = "pending")
             /\ (jobstore'[JobId(p)] # NoJob /\ posts'[p] # NoRow) =>
                    jobstore'[JobId(p)].run_at = posts'[p].scheduled_time]_vars

\* C28: after any sequence of add_account, update_account and delete_account
\* no two rows have the same (platform, username); an add_account that raises
\* leaves the accounts table as it was, and one that returns an id appends one
\* row with a (platform, username) pair no row had, active or soft-deleted,
\* and modifies no existing row.
C28_UniquePlatformUsername ==
    /\ [](\A i, k \in 1..Len(accounts) :
             (accounts[i].platform = accounts[k].platform
                 /\ accounts[i].username = accounts[k].username) => i = k)
    /\ [][(last'.kind = "return" /\ last'.op = "add_account") =>
             /\ last'.value = "raise" => accounts' = accounts
             /\ last'.value = "id" =>
                   /\ Len(accounts') = Len(accounts) + 1
                   /\ SubSeq(accounts', 1, Len(accounts)) = accounts
                   /\ \A i \in 1..Len(accounts) :
                         \/ accounts[i].platform # accounts'[Len(accounts')].platform
                         \/ accounts[i].username # accounts'[Len(accounts')].username]_vars

\* add_account was refused for the pair of a soft-deleted row
C28_Witness ==
    /\ last = Return("add_account", 0, "raise")
    /\ Len(accounts) = 1
    /\ ~accounts[1].is_active

====
